---- MODULE Spec2Model ----
(***************************************************************************)
(* A model of docs/app.js, the price dashboard: label parsing, the         *)
(* printing index, the combined (per-day maximum) series, the statistics   *)
(* of a series, the 7-day movers ranking, and the page's life cycle        *)
(* (init, then the four event handlers init registers).                    *)
(*                                                                         *)
(* Representation.  A JavaScript string is a sequence of one-character     *)
(* strings, so that the regular expression, split, trim, the relational    *)
(* operators and the date formatting are computed character by character.  *)
(* null and undefined are the one-element sequences NullStr and Undefined  *)
(* (no string of the program is one of them: their element is not a        *)
(* character).  A nullable number is a record [some, val].  A price is an  *)
(* integer (a number of pence); a percentage is the exact fraction         *)
(* <<numerator * 100, denominator>>.                                       *)
(***************************************************************************)
EXTENDS Integers, Sequences, FiniteSets, TLC

VARIABLES
    pc,                  \* where init() is, or call/return of a function applied alone
    cards,               \* app.js:24   raw labels of cards.json (each c.name)
    pricesById,          \* app.js:25   label -> series
    baseNames,           \* app.js:29
    printingsByBase,     \* app.js:30   insertion-ordered Map: sequence of [key, val]
    selectedBase,        \* app.js:31
    selectedPrintingId,  \* app.js:32
    viewMode,            \* els.viewMode.value
    cardSearch,          \* els.cardSearch.value
    cardOptions,         \* option values of els.cardSelect
    cardSelectValue,     \* els.cardSelect.value
    printingOptions,     \* option values of els.printingSelect
    printingSelectValue, \* els.printingSelect.value
    printingDisabled,    \* els.printingSelect.disabled
    cardTitle,           \* els.cardTitle.textContent, as [base, what]
    statsShown,          \* what renderStats last wrote (the computeStats record)
    moversPanel,         \* what renderMovers last wrote into els.movers
    arg,                 \* the argument of a function applied alone
    ret                  \* its result

vars == <<pc, cards, pricesById, baseNames, printingsByBase, selectedBase,
          selectedPrintingId, viewMode, cardSearch, cardOptions, cardSelectValue,
          printingOptions, printingSelectValue, printingDisabled, cardTitle,
          statsShown, moversPanel, arg, ret>>

appVars == <<cards, pricesById, baseNames, printingsByBase, selectedBase,
             selectedPrintingId, viewMode, cardSearch, cardOptions, cardSelectValue,
             printingOptions, printingSelectValue, printingDisabled, cardTitle,
             statsShown, moversPanel>>

(***************************************************************************)
(* JavaScript values                                                       *)
(***************************************************************************)
NullStr == <<"null">>
Undefined == <<"undefined">>
NoneNum == [some |-> FALSE, val |-> 0]
NonePct == [some |-> FALSE, val |-> <<0, 1>>]
Some(v) == [some |-> TRUE, val |-> v]
NullArr == [isNull |-> TRUE, arr |-> <<>>]
Arr(s) == [isNull |-> FALSE, arr |-> s]

\* truthiness of a string-or-null value: null, undefined and "" are falsy
Truthy(s) == s # NullStr /\ s # Undefined /\ s # <<>>

\* F applied to the value of v, v evaluated once (a const declaration of the code)
Let(v, F(_)) == CHOOSE r \in {F(x) : x \in {v}} : TRUE
Min(S) == CHOOSE x \in S : \A y \in S : x <= y
Max(S) == CHOOSE x \in S : \A y \in S : y <= x

(***************************************************************************)
(* Characters.  Ascii lists the characters the model's strings use in      *)
(* ascending UTF-16 code unit order; Collation lists them in the order of  *)
(* the root collation's primary weights (letters case-folded).             *)
(***************************************************************************)
LowerAlpha == <<"a","b","c","d","e","f","g","h","i","j","k","l","m",
                "n","o","p","q","r","s","t","u","v","w","x","y","z">>
UpperAlpha == <<"A","B","C","D","E","F","G","H","I","J","K","L","M",
                "N","O","P","Q","R","S","T","U","V","W","X","Y","Z">>
Digits == <<"0","1","2","3","4","5","6","7","8","9">>
Ascii == <<" ", "#", "(", ")", "-">> \o Digits \o UpperAlpha \o LowerAlpha \o <<"|">>
WhiteSpace == {" "}

IndexIn(seq, c) == CHOOSE i \in 1..Len(seq) : seq[i] = c
InSeq(seq, c) == \E i \in 1..Len(seq) : seq[i] = c
Range(seq) == {seq[i] : i \in 1..Len(seq)}
CodeTable == [c \in Range(Ascii) |-> IndexIn(Ascii, c)]
LowerTable == [c \in Range(UpperAlpha) |-> LowerAlpha[IndexIn(UpperAlpha, c)]]
UpperTable == [c \in Range(LowerAlpha) |-> UpperAlpha[IndexIn(LowerAlpha, c)]]
DigitTable == [c \in Range(Digits) |-> IndexIn(Digits, c) - 1]
Code(c) == CodeTable[c]
IsLower(c) == c \in DOMAIN UpperTable
IsUpper(c) == c \in DOMAIN LowerTable
ToLowerChar(c) == IF IsUpper(c) THEN LowerTable[c] ELSE c
ToUpperChar(c) == IF IsLower(c) THEN UpperTable[c] ELSE c
ToLowerCase(s) == [i \in 1..Len(s) |-> ToLowerChar(s[i])]
ToUpperCase(s) == [i \in 1..Len(s) |-> ToUpperChar(s[i])]

\* the first index at which a and b differ, 0 when one is a prefix of the other
FirstDiff(a, b) ==
    LET n == IF Len(a) < Len(b) THEN Len(a) ELSE Len(b)
        diff == {i \in 1..n : a[i] # b[i]}
    IN IF diff = {} THEN 0 ELSE Min(diff)
\* a < b for two strings: the first differing code unit decides, a proper prefix is less
StrLessAt(a, b, k) == IF k = 0 THEN Len(a) < Len(b) ELSE Code(a[k]) < Code(b[k])
StrLess(a, b) == Let(FirstDiff(a, b), LAMBDA k : StrLessAt(a, b, k))
StrLeq(a, b) == a = b \/ StrLess(a, b)

Collation == <<" ", "-", "(", ")", "#", "|">> \o Digits \o LowerAlpha
PrimaryTable == [c \in Range(Collation) |-> IndexIn(Collation, c)]
Primary(c) == PrimaryTable[ToLowerChar(c)]
\* String.prototype.localeCompare for the characters above: primary weights first
\* (a proper prefix is less), and between strings equal on them the first case
\* difference, lower case first
PrimaryKey(s) == [i \in 1..Len(s) |-> Primary(s[i])]
CompareAt(a, b, ka, kb, k, j) ==
    IF k # 0 THEN (IF ka[k] < kb[k] THEN -1 ELSE 1)
    ELSE IF Len(a) # Len(b) THEN (IF Len(a) < Len(b) THEN -1 ELSE 1)
    ELSE IF j = 0 THEN 0
    ELSE IF IsLower(a[j]) THEN -1 ELSE 1
CompareKeys(a, b, ka, kb) ==
    Let(<<FirstDiff(ka, kb), FirstDiff(a, b)>>,
        LAMBDA d : CompareAt(a, b, ka, kb, d[1], d[2]))
LocaleCompare(a, b) ==
    Let(<<PrimaryKey(a), PrimaryKey(b)>>, LAMBDA k : CompareKeys(a, b, k[1], k[2]))

\* Array.prototype.sort with a comparator that orders the elements by a key:
\* rank[i] counts the keys less than the key of s[i].  The sort is stable: the
\* elements of equal rank keep their input order.
Permute(s, pos) == [k \in 1..Len(s) |-> s[CHOOSE i \in 1..Len(s) : pos[i] = k]]
SortPositions(rank) ==
    [i \in 1..Len(rank) |-> Cardinality({j \in 1..Len(rank) :
                                rank[j] < rank[i] \/ (rank[j] = rank[i] /\ j < i)}) + 1]
StableSort(s, rank) == Let(SortPositions(rank), LAMBDA pos : Permute(s, pos))
\* the ranks of strings under (a, b) => a.localeCompare(b)
LocaleRanks(keys) ==
    [i \in 1..Len(keys) |->
        Cardinality({j \in 1..Len(keys) : LocaleCompare(keys[j], keys[i]) < 0})]
\* the ranks of strings under the default comparator, a < b by code units
CodeUnitRanks(keys) ==
    [i \in 1..Len(keys) |-> Cardinality({j \in 1..Len(keys) : StrLess(keys[j], keys[i])})]

(***************************************************************************)
(* Numbers and dates                                                       *)
(***************************************************************************)
\* Number(s) of a string of decimal digits
RECURSIVE DigitsValue(_, _)
DigitsValue(s, n) == IF n = 0 THEN 0 ELSE DigitsValue(s, n - 1) * 10 + DigitTable[s[n]]
StrToNum(s) == DigitsValue(s, Len(s))
\* String(n) of a natural number
RECURSIVE NumToStr(_)
NumToStr(n) ==
    IF n < 10 THEN <<Digits[n + 1]>>
    ELSE NumToStr(n \div 10) \o <<Digits[(n % 10) + 1]>>
\* s.padStart(2, "0")
PadStart2(s) == IF Len(s) < 2 THEN <<"0">> \o s ELSE s

\* s.split("-"): the pieces between the dashes
DashCuts(s) == {0, Len(s) + 1} \cup {i \in 1..Len(s) : s[i] = "-"}
PiecesAt(s, cuts) ==
    LET nth == [k \in 1..Cardinality(cuts) |->
                   CHOOSE c \in cuts : Cardinality({x \in cuts : x < c}) = k - 1]
    IN [k \in 1..(Cardinality(cuts) - 1) |-> SubSeq(s, nth[k] + 1, nth[k + 1] - 1)]
SplitDash(s) == Let(DashCuts(s), LAMBDA cuts : PiecesAt(s, cuts))

\* Date.UTC(y, m - 1, d), in days since 1970-01-01 (proleptic Gregorian calendar)
DateUTC(y, m, d) ==
    LET yy == IF m <= 2 THEN y - 1 ELSE y
        era == yy \div 400
        yoe == yy - era * 400
        mp == IF m > 2 THEN m - 3 ELSE m + 9
        doy == (153 * mp + 2) \div 5 + d - 1
        doe == yoe * 365 + yoe \div 4 - yoe \div 100 + doy
    IN era * 146097 + doe - 719468
\* getUTCFullYear, getUTCMonth() + 1, getUTCDate of the date that many days after the epoch
UTCFields(days) ==
    LET z == days + 719468
        era == z \div 146097
        doe == z - era * 146097
        yoe == (doe - doe \div 1460 + doe \div 36524 - doe \div 146096) \div 365
        doy == doe - (365 * yoe + yoe \div 4 - yoe \div 100)
        mp == (5 * doy + 2) \div 153
        d == doy - (153 * mp + 2) \div 5 + 1
        m == IF mp < 10 THEN mp + 3 ELSE mp - 9
        y == yoe + era * 400 + (IF m <= 2 THEN 1 ELSE 0)
    IN <<y, m, d>>

\* A time value is kept in days, not milliseconds: every time value the program
\* makes is a UTC midnight (Date.UTC of a calendar date, less a whole number of
\* periods of 24 * 60 * 60 * 1000 ms), and a millisecond count exceeds TLC's integers.
\* parseDateISO(s).getTime()
ParseDateISO(s) ==
    Let(SplitDash(s), LAMBDA f : DateUTC(StrToNum(f[1]), StrToNum(f[2]), StrToNum(f[3])))
\* the UTC fields of the Date of time value t, joined as the code joins them
FormatISO(t) ==
    Let(UTCFields(t), LAMBDA f :
        NumToStr(f[1]) \o <<"-">> \o PadStart2(NumToStr(f[2])) \o <<"-">>
        \o PadStart2(NumToStr(f[3])))
IsoMinusDays(isoDate, days) == FormatISO(ParseDateISO(isoDate) - days)

(***************************************************************************)
(* Series                                                                  *)
(***************************************************************************)
SeriesDates(series) == [i \in 1..Len(series) |-> series[i].date]
SortSeries(series) ==
    Let(series, LAMBDA s : StableSort(s, LocaleRanks(SeriesDates(s))))

\* the scan from the end: the greatest index whose date is <= the target
HitsOnOrBefore(series, targetDateISO) ==
    {i \in 1..Len(series) : StrLeq(series[i].date, targetDateISO)}
GetClosestOnOrBeforeFirst(series, targetDateISO) ==
    Let(HitsOnOrBefore(series, targetDateISO), LAMBDA hits :
        IF hits = {} THEN [found |-> FALSE, price |-> 0]
        ELSE [found |-> TRUE, price |-> series[Min(hits)].price])
GetClosestOnOrBefore(series, targetDateISO) ==
    Let(HitsOnOrBefore(series, targetDateISO), LAMBDA hits :
        IF hits = {} THEN [found |-> FALSE, price |-> 0]
        ELSE [found |-> TRUE, price |-> series[Max(hits)].price])

\* sorted.reduce((max, p) => p.price > max ? p.price : max, -Infinity), -Infinity
\* then read as null
RECURSIVE ReduceMax(_, _)
ReduceMax(sorted, n) ==
    IF n = 0 THEN NoneNum
    ELSE Let(ReduceMax(sorted, n - 1), LAMBDA max :
             IF (~max.some) \/ sorted[n].price > max.val
             THEN Some(sorted[n].price) ELSE max)
AthOfLast(sorted) == IF sorted = <<>> THEN NoneNum ELSE Some(sorted[Len(sorted)].price)
AthOf(sorted) == ReduceMax(sorted, Len(sorted))

StatsOfSorted(sorted, last, comparePoint) ==
    LET current == last.price
        change7d == current - comparePoint.price
    IN [current |-> Some(current),
        change7d |-> IF comparePoint.found THEN Some(change7d) ELSE NoneNum,
        change7dPct |-> IF comparePoint.found /\ comparePoint.price # 0
                        THEN Some(<<change7d * 100, comparePoint.price>>)
                        ELSE NonePct,
        ath |-> AthOf(sorted),
        count |-> Len(sorted)]
ComputeStats(series) ==
    IF series.isNull \/ Len(series.arr) = 0
    THEN [current |-> NoneNum, change7d |-> NoneNum, change7dPct |-> NonePct,
          ath |-> NoneNum, count |-> 0]
    ELSE Let(SortSeries(series.arr), LAMBDA sorted :
         Let(FormatISO(ParseDateISO(sorted[Len(sorted)].date) - 7), LAMBDA compareISO :
         Let(GetClosestOnOrBefore(sorted, compareISO), LAMBDA comparePoint :
             StatsOfSorted(sorted, sorted[Len(sorted)], comparePoint))))

PctChange(from, to) ==
    IF (~from.some) \/ from.val = 0 THEN NonePct
    ELSE Some(<<(to - from.val) * 100, from.val>>)

(***************************************************************************)
(* parseLabel                                                              *)
(***************************************************************************)
IsSpace(c) == c \in WhiteSpace
NonSpace(s) == {i \in 1..Len(s) : ~IsSpace(s[i])}
\* s.trim()
TrimTo(s, ns) == IF ns = {} THEN <<>> ELSE SubSeq(s, Min(ns), Max(ns))
Trim(s) == Let(NonSpace(s), LAMBDA ns : TrimTo(s, ns))
\* s.split(/\s+/).filter(Boolean): the maximal runs of non-space characters, in order
TokenStarts(s) == {i \in 1..Len(s) : ~IsSpace(s[i]) /\ (i = 1 \/ IsSpace(s[i - 1]))}
TokenEnd(s, i) == Min({j \in i..Len(s) : j = Len(s) \/ IsSpace(s[j + 1])})
TokensAt(s, starts) ==
    [k \in 1..Cardinality(starts) |->
        LET i == CHOOSE c \in starts : Cardinality({x \in starts : x < c}) = k - 1
        IN SubSeq(s, i, TokenEnd(s, i))]
SplitSpaces(s) == Let(TokenStarts(s), LAMBDA starts : TokensAt(s, starts))

\* /^(.+?)\s*\((.+)\)\s*$/.exec(label), for a label without line terminators.
\* The closing parenthesis is the last non-space character.  Group 1 is lazy: it
\* is the shortest non-empty prefix after which, white space skipped, an opening
\* parenthesis stands at least two places before the closing one.
NextNonSpace(label, k) ==
    LET after == {i \in (k + 1)..Len(label) : ~IsSpace(label[i])}
    IN IF after = {} THEN 0 ELSE Min(after)
OpensAfter(label, k, q) ==
    LET open == NextNonSpace(label, k)
    IN open # 0 /\ label[open] = "(" /\ q >= open + 2
NoMatch == [matched |-> FALSE, m1 |-> <<>>, m2 |-> <<>>]
MatchFrom(label, q, ks) ==
    IF ks = {} THEN NoMatch
    ELSE [matched |-> TRUE,
          m1 |-> SubSeq(label, 1, Min(ks)),
          m2 |-> SubSeq(label, NextNonSpace(label, Min(ks)) + 1, q - 1)]
MatchClosingAt(label, q) ==
    IF label[q] # ")" THEN NoMatch
    ELSE Let({k \in 1..Len(label) : OpensAfter(label, k, q)},
             LAMBDA ks : MatchFrom(label, q, ks))
RegexExec(label) ==
    Let(NonSpace(label), LAMBDA ns :
        IF ns = {} THEN NoMatch ELSE MatchClosingAt(label, Max(ns)))

\* tokens.find(test), hits being the indices of the tokens that pass the test: the
\* first of them, undefined when there is none
Find(tokens, hits) == IF hits = {} THEN Undefined ELSE tokens[Min(hits)]
StartsWithHash(t) == Len(t) >= 1 /\ t[1] = "#"
\* /^[a-z]{2,3}$/.test(t) || /^zhs$/.test(t) || /^zht$/.test(t)
IsLang(t) ==
    \/ Len(t) \in {2, 3} /\ \A i \in 1..Len(t) : IsLower(t[i])
    \/ t = <<"z","h","s">>
    \/ t = <<"z","h","t">>
Foil == <<"f","o","i","l">>
NonFoil == <<"n","o","n","f","o","i","l">>
NonDashFoil == <<"n","o","n","-","f","o","i","l">>
Etched == <<"e","t","c","h","e","d">>
IsFinish(t) == ToLowerCase(t) \in {Foil, NonFoil, NonDashFoil, Etched}
\* cn.replace("#", ""): the first "#" removed
ReplaceHash(cn) ==
    LET i == Min({k \in 1..Len(cn) : cn[k] = "#"})
    IN SubSeq(cn, 1, i - 1) \o SubSeq(cn, i + 1, Len(cn))
\* bits.join(" ")
RECURSIVE JoinSpaces(_, _)
JoinSpaces(bits, n) ==
    IF n = 0 THEN <<>>
    ELSE IF n = 1 THEN bits[1]
    ELSE JoinSpaces(bits, n - 1) \o <<" ">> \o bits[n]
Bit(v, text) == IF Truthy(v) THEN <<text>> ELSE <<>>
PrintableOf(set, collector, lang, finish) ==
    Let(Bit(set, set) \o Bit(collector, <<"#">> \o collector) \o Bit(lang, lang)
        \o Bit(finish, finish),
        LAMBDA bits : JoinSpaces(bits, Len(bits)))
WithPrintable(label, baseName, set, collector, lang, finish) ==
    [id |-> label, baseName |-> baseName, set |-> set, collector |-> collector,
     lang |-> lang, finish |-> finish,
     printable |-> PrintableOf(set, collector, lang, finish)]
\* app.js:110-128: the descriptor of a label whose regex matched
Described(label, baseName, tokens) ==
    Let(<<Find(tokens, {i \in 1..Len(tokens) : StartsWithHash(tokens[i])}),
          Find(tokens, {i \in 1..Len(tokens) : IsLang(tokens[i])}),
          Find(tokens, {i \in 1..Len(tokens) : IsFinish(tokens[i])})>>,
        LAMBDA f :
        WithPrintable(label, baseName,
            IF tokens # <<>> /\ Truthy(tokens[1]) THEN ToUpperCase(tokens[1]) ELSE NullStr,
            IF Truthy(f[1]) THEN ReplaceHash(f[1]) ELSE NullStr,
            IF Truthy(f[2]) THEN f[2] ELSE NullStr,
            IF ~Truthy(f[3]) THEN NullStr
            ELSE IF ToLowerCase(f[3]) = NonDashFoil THEN NonFoil ELSE ToLowerCase(f[3])))
Unparsed(label) ==
    [id |-> label, baseName |-> label, set |-> NullStr, collector |-> NullStr,
     lang |-> NullStr, finish |-> NullStr, printable |-> label]
ParseLabel(label) ==
    Let(RegexExec(label), LAMBDA m :
        IF ~m.matched THEN Unparsed(label)
        ELSE Let(SplitSpaces(Trim(m.m2)), LAMBDA tokens :
                 Described(label, Trim(m.m1), tokens)))

(***************************************************************************)
(* The printing index (init, app.js:494-504).  A Map is the sequence of    *)
(* its entries [key, val] in insertion order.                              *)
(***************************************************************************)
MapHas(m, k) == \E i \in 1..Len(m) : m[i].key = k
MapGet(m, k) == m[CHOOSE i \in 1..Len(m) : m[i].key = k].val
\* m.get(k) || []
MapGetOrEmpty(m, k) == IF MapHas(m, k) THEN MapGet(m, k) ELSE <<>>
MapKeys(m) == [i \in 1..Len(m) |-> m[i].key]

\* app.js:500-501 with the bucket replaced, not appended to
GroupOneReplacing(m, p) ==
    IF ~MapHas(m, p.baseName) THEN Append(m, [key |-> p.baseName, val |-> <<p>>])
    ELSE [i \in 1..Len(m) |->
             IF m[i].key = p.baseName THEN [key |-> m[i].key, val |-> <<p>>] ELSE m[i]]
\* app.js:500-501: the bucket of p.baseName, made on its first printing, gets p
GroupOne(m, p) ==
    IF ~MapHas(m, p.baseName) THEN Append(m, [key |-> p.baseName, val |-> <<p>>])
    ELSE [i \in 1..Len(m) |->
             IF m[i].key = p.baseName
             THEN [key |-> m[i].key, val |-> Append(m[i].val, p)] ELSE m[i]]
RECURSIVE GroupByBase(_, _)
GroupByBase(printings, n) ==
    IF n = 0 THEN <<>>
    ELSE Let(GroupByBase(printings, n - 1), LAMBDA m : GroupOne(m, printings[n]))
\* cards.map(c => parseLabel(c.name))
ParseAll(labels) == [i \in 1..Len(labels) |-> ParseLabel(labels[i])]
BuildIndex(labels) == Let(ParseAll(labels), LAMBDA ps : GroupByBase(ps, Len(ps)))
\* Array.from(printingsByBase.keys()).sort((a, b) => a.localeCompare(b))
SortedKeys(m) == Let(MapKeys(m), LAMBDA keys : StableSort(keys, LocaleRanks(keys)))

(***************************************************************************)
(* buildCombinedSeries                                                     *)
(***************************************************************************)
\* pricesById[id] || []
SeriesOf(prices, id) == IF id \in DOMAIN prices THEN prices[id] ELSE <<>>
\* the points in the order the two loops visit them
RECURSIVE Visited(_, _, _)
Visited(printings, prices, n) ==
    IF n = 0 THEN <<>>
    ELSE Visited(printings, prices, n - 1) \o SeriesOf(prices, printings[n].id)
MapSet(m, k, v) ==
    IF ~MapHas(m, k) THEN Append(m, [key |-> k, val |-> v])
    ELSE [i \in 1..Len(m) |-> IF m[i].key = k THEN [key |-> k, val |-> v] ELSE m[i]]
PerDayLastWins(perDay, pt) == MapSet(perDay, pt.date, pt.price)
PerDayFirstWins(perDay, pt) ==
    IF ~MapHas(perDay, pt.date) THEN MapSet(perDay, pt.date, pt.price) ELSE perDay
\* app.js:139-140
PerDay(perDay, pt) ==
    IF (~MapHas(perDay, pt.date)) \/ pt.price > MapGet(perDay, pt.date)
    THEN MapSet(perDay, pt.date, pt.price) ELSE perDay
RECURSIVE PerDayAll(_, _)
PerDayAll(points, n) ==
    IF n = 0 THEN <<>>
    ELSE Let(PerDayAll(points, n - 1), LAMBDA perDay : PerDay(perDay, points[n]))
\* Array.from(perDay.keys()).sort(): the default sort, by code units
SortedDates(perDay) == Let(MapKeys(perDay), LAMBDA keys : StableSort(keys, CodeUnitRanks(keys)))
PointsOf(perDay, dates) ==
    [i \in 1..Len(dates) |-> [date |-> dates[i], price |-> MapGet(perDay, dates[i])]]
CombinedSeries(printings, prices) ==
    Let(Visited(printings, prices, Len(printings)), LAMBDA points :
    Let(PerDayAll(points, Len(points)), LAMBDA perDay :
    Let(SortedDates(perDay), LAMBDA dates : PointsOf(perDay, dates))))
BuildCombinedSeries(baseName) ==
    CombinedSeries(MapGetOrEmpty(printingsByBase, baseName), pricesById)

(***************************************************************************)
(* computeMovers7d                                                         *)
(***************************************************************************)
SeriesLast(series) ==
    IF Len(series) = 0 THEN [found |-> FALSE, date |-> <<>>, price |-> 0]
    ELSE Let(SortSeries(series), LAMBDA sorted :
             [found |-> TRUE, date |-> sorted[Len(sorted)].date,
              price |-> sorted[Len(sorted)].price])
SeriesValueOrZero(series, targetISODate) ==
    Let(GetClosestOnOrBefore(SortSeries(series), targetISODate), LAMBDA pt :
        IF pt.found THEN Some(pt.price) ELSE Some(0))
SeriesValueAtOrBefore(series, targetISODate) ==
    Let(GetClosestOnOrBefore(SortSeries(series), targetISODate), LAMBDA pt :
        IF pt.found THEN Some(pt.price) ELSE NoneNum)

\* one turn of the loop of app.js:379-404: the movers with this base name's, if any
MoverFrom(baseName, lastPt, startDate, startVal) ==
    IF ~startVal.some THEN <<>>
    ELSE << [baseName |-> baseName, startDate |-> startDate, endDate |-> lastPt.date,
             startVal |-> startVal.val, endVal |-> lastPt.price,
             delta |-> lastPt.price - startVal.val,
             pct |-> PctChange(startVal, lastPt.price)] >>
MoverOfSeries(baseName, combined, lastPt) ==
    IF ~lastPt.found THEN <<>>
    ELSE Let(IsoMinusDays(lastPt.date, 7), LAMBDA startDate :
         Let(SeriesValueAtOrBefore(combined, startDate), LAMBDA startVal :
             MoverFrom(baseName, lastPt, startDate, startVal)))
MoverOf(baseName) ==
    Let(BuildCombinedSeries(baseName), LAMBDA combined :
        MoverOfSeries(baseName, combined, SeriesLast(combined)))
RECURSIVE MoversOf(_, _)
MoversOf(names, n) ==
    IF n = 0 THEN <<>> ELSE MoversOf(names, n - 1) \o MoverOf(names[n])

Slice(s, limit) == SubSeq(s, 1, IF limit < Len(s) THEN limit ELSE Len(s))
IsGain(m) == m.delta > 0
IsLoss(m) == m.delta < 0
\* (a, b) => b.delta - a.delta orders by falling delta, (a, b) => a.delta - b.delta
\* by rising delta
FallingDelta(ms) == [i \in 1..Len(ms) |-> 0 - ms[i].delta]
RisingDelta(ms) == [i \in 1..Len(ms) |-> ms[i].delta]
GainersUnsorted(movers, limit) == Slice(SelectSeq(movers, IsGain), limit)
Gainers(movers, limit) ==
    Let(SelectSeq(movers, IsGain), LAMBDA ms : Slice(StableSort(ms, FallingDelta(ms)), limit))
Losers(movers, limit) ==
    Let(SelectSeq(movers, IsLoss), LAMBDA ms : Slice(StableSort(ms, RisingDelta(ms)), limit))
ComputeMovers7d(limit) ==
    Let(MoversOf(baseNames, Len(baseNames)), LAMBDA movers :
        [gainers |-> Gainers(movers, limit), losers |-> Losers(movers, limit)])
DefaultLimit == 8

(***************************************************************************)
(* The selects and the view (app.js:268-348)                               *)
(***************************************************************************)
OrEmpty(v) == IF Truthy(v) THEN v ELSE <<>>
\* `${a.set || ""}|${a.collector || ""}|${a.lang || ""}|${a.finish || ""}`
SortKey(p) ==
    OrEmpty(p.set) \o <<"|">> \o OrEmpty(p.collector) \o <<"|">> \o OrEmpty(p.lang)
    \o <<"|">> \o OrEmpty(p.finish)
SortKeys(printings) == [i \in 1..Len(printings) |-> SortKey(printings[i])]
HasId(printings, id) == \E i \in 1..Len(printings) : printings[i].id = id
FirstId(printings) ==
    IF printings # <<>> /\ Truthy(printings[1].id) THEN printings[1].id ELSE NullStr
KeepSelected(printings, current) == current
\* app.js:296-298: the current selection if it is one of the printings, else the first
ValidSelected(printings, current) ==
    IF HasId(printings, current) THEN current ELSE FirstId(printings)
\* populatePrintingDropdown(baseName) with selectedPrintingId = current: the option
\* values, the new selectedPrintingId and the value the select then shows
Dropdown(printings, selected) ==
    [options |-> [i \in 1..Len(printings) |-> printings[i].id],
     selected |-> selected,
     value |-> OrEmpty(selected)]
PopulatePrintingDropdown(index, baseName, current) ==
    Let(MapGetOrEmpty(index, baseName), LAMBDA unsorted :
    Let(StableSort(unsorted, LocaleRanks(SortKeys(unsorted))), LAMBDA printings :
        Dropdown(printings, ValidSelected(printings, current))))

Combined == <<"Combined">>
FailedToLoad == <<"Failed to load dashboard data">>
\* printings.find(p => p.id === selectedPrintingId) || printings[0]
PrintingShown(printings, id) ==
    IF HasId(printings, id)
    THEN printings[Min({i \in 1..Len(printings) : printings[i].id = id})]
    ELSE printings[1]
TitleBits(printing) == IF Truthy(printing.printable) THEN printing.printable ELSE printing.id

\* applyViewState() with els.viewMode.value = mode, selectedBase = base,
\* selectedPrintingId = id and the printing select holding dd
ShowCombined(printings, prices, base, dd) ==
    /\ selectedPrintingId' = dd.selected
    /\ printingOptions' = dd.options
    /\ printingSelectValue' = dd.value
    /\ cardTitle' = [base |-> base, what |-> Combined]
    /\ statsShown' = ComputeStats(Arr(CombinedSeries(printings, prices)))
ShowPrinting(printings, prices, base, dd) ==
    /\ selectedPrintingId' = dd.selected
    /\ printingOptions' = dd.options
    /\ printingSelectValue' = dd.value
    /\ cardTitle' = [base |-> base, what |-> TitleBits(PrintingShown(printings, dd.selected))]
    /\ statsShown' = ComputeStats(Arr(SeriesOf(prices, PrintingShown(printings, dd.selected).id)))
ApplyViewState(index, prices, mode, base, dd) ==
    LET printings == MapGetOrEmpty(index, base)
        hasMultiplePrintings == Len(printings) > 1
    IN /\ printingDisabled' = ~(mode = "printing" /\ hasMultiplePrintings)
       /\ IF mode = "combined" \/ ~hasMultiplePrintings
          THEN ShowCombined(printings, prices, base, dd)
          ELSE \E again \in {PopulatePrintingDropdown(index, base, dd.selected)} :
                   ShowPrinting(printings, prices, base, again)

\* setSelectedBase(name) with the card select holding options
OnlyPrinting(printings, current) == IF Len(printings) = 1 THEN printings[1].id ELSE current
SetSelectedBase(index, prices, mode, options, name, current) ==
    /\ selectedBase' = name
    /\ cardSelectValue' = (IF name \in Range(options) THEN name ELSE <<>>)
    /\ \E dd \in {PopulatePrintingDropdown(index, name,
                      OnlyPrinting(MapGetOrEmpty(index, name), current))} :
           ApplyViewState(index, prices, mode, name, dd)

\* n.toLowerCase().includes(q)
Includes(s, q) == \E i \in 0..(Len(s) - Len(q)) : SubSeq(s, i + 1, i + Len(q)) = q
Filtered(names, q) ==
    IF q = <<>> THEN names
    ELSE SelectSeq(names, LAMBDA n : Includes(ToLowerCase(n), q))

RenderLimit == 8
\* renderMovers(): the lists, or the one line saying there is not enough history
RenderMovers ==
    Let(ComputeMovers7d(RenderLimit), LAMBDA m :
        [rendered |-> TRUE,
         message |-> (m.gainers = <<>> /\ m.losers = <<>>),
         movers |-> m])

(***************************************************************************)
(* The state after the script's top-level declarations (app.js:8-32), and  *)
(* before init() runs: no data, nothing selected, empty selects.           *)
(***************************************************************************)
EmptyStats == [current |-> NoneNum, change7d |-> NoneNum, change7dPct |-> NonePct,
               ath |-> NoneNum, count |-> 0]
NoMovers == [gainers |-> <<>>, losers |-> <<>>]
Constructed ==
    /\ cards = <<>>
    /\ pricesById = <<>>
    /\ baseNames = <<>>
    /\ printingsByBase = <<>>
    /\ selectedBase = NullStr
    /\ selectedPrintingId = NullStr
    /\ viewMode = "combined"
    /\ cardSearch = <<>>
    /\ cardOptions = <<>>
    /\ cardSelectValue = <<>>
    /\ printingOptions = <<>>
    /\ printingSelectValue = <<>>
    /\ printingDisabled = FALSE
    /\ cardTitle = [base |-> NullStr, what |-> NullStr]
    /\ statsShown = EmptyStats
    /\ moversPanel = [rendered |-> FALSE, message |-> FALSE, movers |-> NoMovers]

(***************************************************************************)
(* Inputs.  The dates straddle the end of February of a leap year:         *)
(* 2024-03-01 is seven days after 2024-02-23, 2024-03-03 seven days after  *)
(* 2024-02-25.                                                             *)
(***************************************************************************)
D0223 == <<"2","0","2","4","-","0","2","-","2","3">>
D0225 == <<"2","0","2","4","-","0","2","-","2","5">>
D0301 == <<"2","0","2","4","-","0","3","-","0","1">>
D0303 == <<"2","0","2","4","-","0","3","-","0","3">>
Dates == {D0223, D0225, D0301, D0303}

SeqsUpTo(S, n) == UNION {[1..k -> S] : k \in 0..n}
Points(dates, maxPrice) == [date : dates, price : 0..maxPrice]

(***************************************************************************)
(* computeStats applied alone to a series in any order                     *)
(***************************************************************************)
StatsMaxPoints == 3
StatsMaxPrice == 2

StatsInit ==
    /\ Constructed
    /\ pc = "call"
    /\ arg \in {NullArr} \cup {Arr(s) : s \in SeqsUpTo(Points(Dates, StatsMaxPrice), StatsMaxPoints)}
    /\ ret = EmptyStats

CallComputeStats ==
    /\ pc = "call"
    /\ ret' = ComputeStats(arg)
    /\ pc' = "return"
    /\ UNCHANGED <<appVars, arg>>

StatsNext == CallComputeStats
SpecStats == StatsInit /\ [][StatsNext]_vars

\* the calendar day of an ISO date, counted from the epoch
DayNumber(iso) == ParseDateISO(iso)

\* C2: computeStats(S).count is the number of points of S and, for a non-empty S,
\* computeStats(S).ath is the greatest price of S; for an empty or missing series
\* count is 0 and ath is none.
C2_CountAndAth ==
    pc = "return" =>
        LET S == arg.arr
        IN /\ ret.count = (IF arg.isNull THEN 0 ELSE Len(S))
           /\ (arg.isNull \/ S = <<>>) => ret.ath = NoneNum
           /\ (~arg.isNull /\ S # <<>>) =>
                 /\ ret.ath.some
                 /\ \E i \in 1..Len(S) : S[i].price = ret.ath.val
                 /\ \A i \in 1..Len(S) : S[i].price <= ret.ath.val

\* a series given out of date order whose greatest price is not its latest one
C2_Witness ==
    /\ pc = "return"
    /\ ~arg.isNull
    /\ Len(arg.arr) = 3
    /\ DayNumber(arg.arr[1].date) > DayNumber(arg.arr[2].date)
    /\ ret.ath.val > ret.current.val
    /\ ret.count = 3

\* C3: with L the latest date of a non-empty series, the comparison point is the
\* latest point dated on or before L minus 7 days (of several points of that date,
\* the last given); if there is one, change7d = current - its price and change7dPct
\* = percentChange(its price, current), none when that price is 0; if there is none,
\* change7d and change7dPct are both none.
C3_SevenDayChange ==
    (pc = "return" /\ ~arg.isNull /\ arg.arr # <<>>) =>
        LET S == arg.arr
            idx == 1..Len(S)
            day == [i \in idx |-> DayNumber(S[i].date)]
            L == CHOOSE d \in Range(day) : \A i \in idx : day[i] <= d
            cur == CHOOSE i \in idx : day[i] = L /\ \A j \in idx : day[j] = L => j <= i
            cands == {i \in idx : day[i] <= L - 7}
            best == CHOOSE d \in {day[i] : i \in cands} : \A i \in cands : day[i] <= d
            ref == CHOOSE i \in cands :
                     day[i] = best /\ \A j \in cands : day[j] = best => j <= i
        IN IF cands = {}
           THEN ret.change7d = NoneNum /\ ret.change7dPct = NonePct
           ELSE /\ ret.change7d = Some(S[cur].price - S[ref].price)
                /\ ret.change7dPct = PctChange(Some(S[ref].price), S[cur].price)
                /\ (S[ref].price = 0 => ret.change7dPct = NonePct)

\* two points lie on or before L - 7 days, the earlier one with another price
C3_Witness ==
    /\ pc = "return"
    /\ ~arg.isNull
    /\ arg.arr = <<[date |-> D0225, price |-> 1], [date |-> D0303, price |-> 0],
                   [date |-> D0223, price |-> 0]>>
    /\ ret.change7d = Some(-1)
    /\ ret.change7dPct = Some(<<-100, 1>>)

(***************************************************************************)
(* parseLabel applied alone.  A label is built of up to MaxPieces pieces;  *)
(* LabelExamples are whole labels in the exporter's format.                *)
(***************************************************************************)
MaxPieces == 4
Pieces == { <<"A","b">>, <<" ">>, <<"(">>, <<")">>, <<"i","n","r">>, <<"#","7">>,
            <<"F","o","i","l">> }
RECURSIVE Concat(_, _)
Concat(ps, n) == IF n = 0 THEN <<>> ELSE Concat(ps, n - 1) \o ps[n]
\* "Aim High (INR #185 en nonfoil)" (app.js:89), "Bolt", and a name with a parenthetical
AimHigh == <<"A","i","m"," ","H","i","g","h"," ","(","I","N","R"," ","#","1","8","5",
             " ","e","n"," ","n","o","n","f","o","i","l",")">>
Bolt == <<"B","o","l","t">>
BigFurry == <<"B","f","m"," ","(","B","i","g",")"," ","(","u","g","l"," ","#","2","8",
              " ","e","n"," ","n","o","n","-","f","o","i","l",")">>
LabelExamples == {AimHigh, Bolt, BigFurry}
LabelInputs ==
    LabelExamples \cup {Concat(ps, Len(ps)) : ps \in SeqsUpTo(Pieces, MaxPieces)}

ParseInit ==
    /\ Constructed
    /\ pc = "call"
    /\ arg \in LabelInputs
    /\ ret = Unparsed(<<>>)

CallParseLabel ==
    /\ pc = "call"
    /\ ret' = ParseLabel(arg)
    /\ pc' = "return"
    /\ UNCHANGED <<appVars, arg>>

ParseNext == CallParseLabel
SpecParse == ParseInit /\ [][ParseNext]_vars

\* the last top-level group of a label whose last non-space character is ")": it
\* opens at the parenthesis matching that one
Count(s, lo, hi, c) == Cardinality({i \in lo..hi : s[i] = c})
MatchingOpen(s, q) ==
    LET back == {i \in 1..(q - 1) : Count(s, i, q, "(") = Count(s, i, q, ")")}
    IN IF back = {} THEN 0 ELSE Max(back)
LastNonSpace(s) == IF NonSpace(s) = {} THEN 0 ELSE Max(NonSpace(s))
LastGroupOpen(s) ==
    IF LastNonSpace(s) = 0 \/ s[LastNonSpace(s)] # ")" THEN 0
    ELSE MatchingOpen(s, LastNonSpace(s))

\* C7: a label "<name> (<tokens>)" ending with a parenthetical group is parsed on
\* its last top-level group: baseName is the trimmed text before that group, the
\* attributes are those of the tokens inside it; a label with no trailing
\* parenthetical yields baseName = id = printable = the label, attributes unset.
C7_LastGroup ==
    pc = "return" =>
        LET open == LastGroupOpen(arg)
            close == LastNonSpace(arg)
            name == Trim(SubSeq(arg, 1, open - 1))
            inside == SubSeq(arg, open + 1, close - 1)
        IN /\ (open > 1 /\ name # <<>> /\ Trim(inside) # <<>>) =>
                  ret = Described(arg, name, SplitSpaces(Trim(inside)))
           /\ (close = 0 \/ arg[close] # ")") => ret = Unparsed(arg)

(***************************************************************************)
(* Loaded data for the functions that read the index and the prices.  The  *)
(* price data is a set of observations (label, date, price); a label's     *)
(* series lists its observations latest date first, so never in the order  *)
(* the code sorts them into.                                               *)
(***************************************************************************)
FooA == <<"F","o","o"," ","(","i","n","r"," ","#","7",")">>
FooB == <<"F","o","o"," ","(","i","n","r"," ","#","7"," ","f","o","i","l",")">>
Bar == <<"B","a","r">>
Foo == <<"F","o","o">>
Zed == <<"Z","e","d">>

SubsetsUpTo(S, n) == {T \in SUBSET S : Cardinality(T) <= n}
Observations(labels, dates, maxPrice) == [label : labels, date : dates, price : 0..maxPrice]
ObsLater(a, b) == StrLess(b.date, a.date) \/ (a.date = b.date /\ a.price < b.price)
RECURSIVE SeqOfSet(_)
SeqOfSet(S) ==
    IF S = {} THEN <<>>
    ELSE LET x == CHOOSE y \in S : \A z \in S \ {y} : ObsLater(y, z)
         IN <<[date |-> x.date, price |-> x.price]>> \o SeqOfSet(S \ {x})
PricesOf(obs) ==
    [l \in {o.label : o \in obs} |-> SeqOfSet({o \in obs : o.label = l})]
Loaded(labels, obs) ==
    /\ cards = labels
    /\ pricesById = PricesOf(obs)
    /\ printingsByBase = BuildIndex(labels)
    /\ baseNames = SortedKeys(BuildIndex(labels))
Unselected ==
    /\ selectedBase = NullStr
    /\ selectedPrintingId = NullStr
    /\ viewMode = "combined"
    /\ cardSearch = <<>>
    /\ cardOptions = <<>>
    /\ cardSelectValue = <<>>
    /\ printingOptions = <<>>
    /\ printingSelectValue = <<>>
    /\ printingDisabled = FALSE
    /\ cardTitle = [base |-> NullStr, what |-> NullStr]
    /\ statsShown = EmptyStats
    /\ moversPanel = [rendered |-> FALSE, message |-> FALSE, movers |-> NoMovers]

(***************************************************************************)
(* buildCombinedSeries applied alone: two printings of Foo, one of Bar     *)
(***************************************************************************)
CombinedMaxObs == 3
CombinedMaxPrice == 1
CombinedDates == {D0223, D0225, D0303}

CombinedInit ==
    /\ pc = "call"
    /\ Unselected
    /\ \E obs \in SubsetsUpTo(Observations({FooA, FooB, Bar}, CombinedDates,
                                           CombinedMaxPrice), CombinedMaxObs) :
           Loaded(<<FooA, FooB, Bar>>, obs)
    /\ arg = <<>>
    /\ ret = <<>>

CallBuildCombinedSeries ==
    /\ pc = "call"
    /\ \E baseName \in {Foo, Bar, Zed} :
           /\ arg' = baseName
           /\ ret' = BuildCombinedSeries(baseName)
    /\ pc' = "return"
    /\ UNCHANGED appVars

CombinedNext == CallBuildCombinedSeries
SpecCombined == CombinedInit /\ [][CombinedNext]_vars

\* the points of the series of the printings of a base name
PointsOfBase(baseName) ==
    UNION { Range(SeriesOf(pricesById, p.id)) : p \in Range(MapGetOrEmpty(printingsByBase, baseName)) }

\* C1: the combined series of a base name has, for each date of any series of any
\* of its printings, exactly one point, priced at the greatest price of that date
\* over those printings; it has no other date, and its dates strictly ascend.  No
\* printing, or only empty series, gives the empty series.
C1_CombinedIsDailyMax ==
    pc = "return" =>
        LET pts == PointsOfBase(arg)
        IN /\ {ret[i].date : i \in 1..Len(ret)} = {p.date : p \in pts}
           /\ \A i \in 1..Len(ret) :
                 ret[i].price = Max({p.price : p \in {q \in pts : q.date = ret[i].date}})
           /\ \A i \in 1..(Len(ret) - 1) : DayNumber(ret[i].date) < DayNumber(ret[i + 1].date)
           /\ (pts = {}) => ret = <<>>

\* Foo's two printings are priced differently on one day, the cheaper one visited last
C1_Witness ==
    /\ pc = "return"
    /\ arg = Foo
    /\ Len(ret) = 2
    /\ \E i \in 1..Len(ret) :
          /\ [date |-> ret[i].date, price |-> 1] \in Range(SeriesOf(pricesById, FooA))
          /\ [date |-> ret[i].date, price |-> 0] \in Range(SeriesOf(pricesById, FooB))
          /\ ret[i].price = 1

Perms(s) == {f \in [1..Len(s) -> 1..Len(s)] : \A i, j \in 1..Len(s) : f[i] = f[j] => i = j}
Reordered(s) == {[i \in 1..Len(s) |-> s[f[i]]] : f \in Perms(s)}
\* C8: the combined series of a base name is the same for every order of its
\* printings and every order of the points inside each series.
C8_OrderInvariant ==
    pc = "return" =>
        \A printings \in Reordered(MapGetOrEmpty(printingsByBase, arg)) :
            \A prices \in [DOMAIN pricesById -> UNION {Reordered(pricesById[l]) : l \in DOMAIN pricesById}] :
                (\A l \in DOMAIN pricesById : prices[l] \in Reordered(pricesById[l]))
                    => CombinedSeries(printings, prices) = ret

\* both printings of Foo have a point on the same day, with different prices
C8_Witness ==
    /\ pc = "return"
    /\ arg = Foo
    /\ \E a \in Range(SeriesOf(pricesById, FooA)), b \in Range(SeriesOf(pricesById, FooB)) :
          a.date = b.date /\ a.price # b.price
    /\ Len(SeriesOf(pricesById, FooA)) = 2

(***************************************************************************)
(* computeMovers7d applied alone: two base names                           *)
(***************************************************************************)
MoversMaxObs == 4
MoversMaxPrice == 2
MoversDates == {D0223, D0225, D0303}

MoversInit ==
    /\ pc = "call"
    /\ Unselected
    /\ \E obs \in SubsetsUpTo(Observations({FooA, Bar}, MoversDates, MoversMaxPrice),
                              MoversMaxObs) :
           Loaded(<<FooA, Bar>>, obs)
    /\ arg = 0
    /\ ret = NoMovers

CallComputeMovers7d ==
    /\ pc = "call"
    /\ \E limit \in {1, DefaultLimit} :
           /\ arg' = limit
           /\ ret' = ComputeMovers7d(limit)
    /\ pc' = "return"
    /\ UNCHANGED appVars

MoversNext == CallComputeMovers7d
SpecMovers == MoversInit /\ [][MoversNext]_vars

Deltas(ms) == [i \in 1..Len(ms) |-> ms[i].delta]
\* the position of a base name in baseNames, the order the loop visits them in
Visit(name) == CHOOSE i \in 1..Len(baseNames) : baseNames[i] = name

\* C4 as claimed: no mover with delta <= 0 in gainers, none with delta >= 0 in
\* losers, gainers strictly descending by delta and losers strictly ascending.
C4_StrictRanking ==
    pc = "return" =>
        /\ \A i \in 1..Len(ret.gainers) : ret.gainers[i].delta > 0
        /\ \A i \in 1..Len(ret.losers) : ret.losers[i].delta < 0
        /\ \A i \in 1..(Len(ret.gainers) - 1) :
              ret.gainers[i].delta > ret.gainers[i + 1].delta
        /\ \A i \in 1..(Len(ret.losers) - 1) :
              ret.losers[i].delta < ret.losers[i + 1].delta

\* C4 as amended: no mover with delta <= 0 in gainers, none with delta >= 0 in
\* losers; gainers descends by delta and losers ascends by delta, and movers of
\* equal delta stand in the order of baseNames.
C4_Ranking ==
    pc = "return" =>
        /\ \A i \in 1..Len(ret.gainers) : ret.gainers[i].delta > 0
        /\ \A i \in 1..Len(ret.losers) : ret.losers[i].delta < 0
        /\ \A i \in 1..(Len(ret.gainers) - 1) :
              \/ ret.gainers[i].delta > ret.gainers[i + 1].delta
              \/ /\ ret.gainers[i].delta = ret.gainers[i + 1].delta
                 /\ Visit(ret.gainers[i].baseName) < Visit(ret.gainers[i + 1].baseName)
        /\ \A i \in 1..(Len(ret.losers) - 1) :
              \/ ret.losers[i].delta < ret.losers[i + 1].delta
              \/ /\ ret.losers[i].delta = ret.losers[i + 1].delta
                 /\ Visit(ret.losers[i].baseName) < Visit(ret.losers[i + 1].baseName)

\* two gainers, the greater one visited second
C4_Witness ==
    /\ pc = "return"
    /\ baseNames = <<Bar, Foo>>
    /\ Len(ret.gainers) = 2
    /\ ret.gainers[1].baseName = Foo
    /\ Deltas(ret.gainers) = <<2, 1>>

\* C5: a base name is in gainers or losers only if the series of its printings
\* have a point, and one dated on or before the date of its latest point less 7
\* days; a base name without points, or without such a point, is in neither.
C5_OnlyWithHistory ==
    pc = "return" =>
        \A m \in Range(ret.gainers) \cup Range(ret.losers) :
            LET days == {DayNumber(p.date) : p \in PointsOfBase(m.baseName)}
            IN /\ m.baseName \in Range(baseNames)
               /\ days # {}
               /\ \E d \in days : d <= Max(days) - 7

\* Foo moved over the week and is ranked; Bar's two prices, two days apart, are not
C5_Witness ==
    /\ pc = "return"
    /\ Len(ret.gainers) = 1
    /\ ret.gainers[1].baseName = Foo
    /\ ret.losers = <<>>
    /\ SeriesOf(pricesById, Bar) = <<[date |-> D0225, price |-> 2], [date |-> D0223, price |-> 1]>>

(***************************************************************************)
(* The page: init() and the handlers it registers                          *)
(***************************************************************************)
AppMaxCards == 3
AppLabels == {FooA, FooB, Bar}
\* no prices at all; one price only; a week in which Foo rose and Bar fell
OneDay == { [label |-> FooA, date |-> D0303, price |-> 1] }
Week == { [label |-> FooA, date |-> D0225, price |-> 1],
          [label |-> FooA, date |-> D0303, price |-> 2],
          [label |-> FooB, date |-> D0303, price |-> 1],
          [label |-> Bar, date |-> D0225, price |-> 2],
          [label |-> Bar, date |-> D0303, price |-> 1] }
AppPrices == { {}, OneDay, Week }
Queries == { <<>>, <<"f">>, <<"B","a">>, <<"q">> }

Init ==
    /\ Constructed
    /\ pc = "start"
    /\ arg = <<>>
    /\ ret = <<>>

\* app.js:487: init() renders the movers first, from the still empty baseNames
InitRenderMovers ==
    /\ pc = "start"
    /\ moversPanel' = RenderMovers
    /\ pc' = "loading"
    /\ UNCHANGED <<cards, pricesById, baseNames, printingsByBase, selectedBase,
                   selectedPrintingId, viewMode, cardSearch, cardOptions,
                   cardSelectValue, printingOptions, printingSelectValue,
                   printingDisabled, cardTitle, statsShown, arg, ret>>

\* app.js:489-530: both files load; the index is built, the first base name is
\* selected and the handlers are registered
LoadOk ==
    /\ pc = "loading"
    /\ \E labels \in SeqsUpTo(AppLabels, AppMaxCards), obs \in AppPrices :
        \E index \in {BuildIndex(labels)} :
        \E names \in {SortedKeys(index)} :
           /\ cards' = labels
           /\ pricesById' = PricesOf(obs)
           /\ printingsByBase' = index
           /\ baseNames' = names
           /\ cardOptions' = names
           /\ SetSelectedBase(index, PricesOf(obs), viewMode, names,
                              IF names = <<>> THEN Undefined ELSE names[1],
                              selectedPrintingId)
    /\ pc' = "ready"
    /\ UNCHANGED <<viewMode, cardSearch, moversPanel, arg, ret>>

\* app.js:480-484, 533-537: a file does not load
LoadFail ==
    /\ pc = "loading"
    /\ cardTitle' = [base |-> NullStr, what |-> FailedToLoad]
    /\ pc' = "failed"
    /\ UNCHANGED <<cards, pricesById, baseNames, printingsByBase, selectedBase,
                   selectedPrintingId, viewMode, cardSearch, cardOptions,
                   cardSelectValue, printingOptions, printingSelectValue,
                   printingDisabled, statsShown, moversPanel, arg, ret>>

\* app.js:512: another option of the card select is chosen
CardSelectChange ==
    /\ pc = "ready"
    /\ \E name \in Range(cardOptions) :
           /\ name # cardSelectValue
           /\ SetSelectedBase(printingsByBase, pricesById, viewMode, cardOptions, name,
                              selectedPrintingId)
    /\ UNCHANGED <<pc, cards, pricesById, baseNames, printingsByBase, viewMode,
                   cardSearch, cardOptions, moversPanel, arg, ret>>

OtherMode(mode) == IF mode = "combined" THEN "printing" ELSE "combined"
\* app.js:514: the other view mode is chosen
ViewModeChange ==
    /\ pc = "ready"
    /\ viewMode' = OtherMode(viewMode)
    /\ ApplyViewState(printingsByBase, pricesById, OtherMode(viewMode), selectedBase,
                      [options |-> printingOptions, selected |-> selectedPrintingId,
                       value |-> printingSelectValue])
    /\ UNCHANGED <<pc, cards, pricesById, baseNames, printingsByBase, selectedBase,
                   cardSearch, cardOptions, cardSelectValue, moversPanel, arg, ret>>

\* the view mode is changed while no handler is registered yet (or none ever is)
ViewModeUnheard ==
    /\ pc # "ready"
    /\ viewMode' = OtherMode(viewMode)
    /\ UNCHANGED <<pc, cards, pricesById, baseNames, printingsByBase, selectedBase,
                   selectedPrintingId, cardSearch, cardOptions, cardSelectValue,
                   printingOptions, printingSelectValue, printingDisabled, cardTitle,
                   statsShown, moversPanel, arg, ret>>

\* app.js:516-519: another option of the enabled printing select is chosen
PrintingSelectChange ==
    /\ pc = "ready"
    /\ ~printingDisabled
    /\ \E id \in Range(printingOptions) :
           /\ id # printingSelectValue
           /\ ApplyViewState(printingsByBase, pricesById, viewMode, selectedBase,
                             [options |-> printingOptions, selected |-> id, value |-> id])
    /\ UNCHANGED <<pc, cards, pricesById, baseNames, printingsByBase, selectedBase,
                   viewMode, cardSearch, cardOptions, cardSelectValue, moversPanel,
                   arg, ret>>

\* app.js:521-530: the search text changes; the card select is refilled with the
\* base names containing it and, if there is one, the first of them is selected
CardSearchInput ==
    /\ pc = "ready"
    /\ \E text \in Queries \ {cardSearch} :
        \E filtered \in {Filtered(baseNames, ToLowerCase(Trim(text)))} :
           /\ cardSearch' = text
           /\ cardOptions' = filtered
           /\ IF filtered # <<>>
              THEN SetSelectedBase(printingsByBase, pricesById, viewMode, filtered,
                                   filtered[1], selectedPrintingId)
              ELSE /\ cardSelectValue' = <<>>
                   /\ UNCHANGED <<selectedBase, selectedPrintingId, printingOptions,
                                  printingSelectValue, printingDisabled, cardTitle,
                                  statsShown>>
    /\ UNCHANGED <<pc, cards, pricesById, baseNames, printingsByBase, viewMode,
                   moversPanel, arg, ret>>

\* the search text changes while no handler is registered
CardSearchUnheard ==
    /\ pc # "ready"
    /\ \E text \in Queries \ {cardSearch} : cardSearch' = text
    /\ UNCHANGED <<pc, cards, pricesById, baseNames, printingsByBase, selectedBase,
                   selectedPrintingId, viewMode, cardOptions, cardSelectValue,
                   printingOptions, printingSelectValue, printingDisabled, cardTitle,
                   statsShown, moversPanel, arg, ret>>

Next ==
    \/ InitRenderMovers
    \/ LoadOk
    \/ LoadFail
    \/ CardSelectChange
    \/ ViewModeChange
    \/ ViewModeUnheard
    \/ PrintingSelectChange
    \/ CardSearchInput
    \/ CardSearchUnheard

Spec == Init /\ [][Next]_vars

SelectedPrintings == MapGetOrEmpty(printingsByBase, selectedBase)

\* C9: once the data is loaded, whatever the card select, the view mode, the
\* printing select and the search box then do, selectedPrintingId is null or the
\* id of a printing of the selected base name, and the printing select is enabled
\* exactly when the view mode is "printing" and that base name has more than one
\* printing.
C9_SelectionValid ==
    pc = "ready" =>
        /\ selectedPrintingId = NullStr \/ HasId(SelectedPrintings, selectedPrintingId)
        /\ (~printingDisabled) <=> (viewMode = "printing" /\ Len(SelectedPrintings) > 1)

\* Foo, of two printings, is selected after Bar was, in printing view, and its
\* second printing has been chosen
C9_Witness ==
    /\ pc = "ready"
    /\ cards = <<Bar, FooA, FooB>>
    /\ selectedBase = Foo
    /\ viewMode = "printing"
    /\ ~printingDisabled
    /\ selectedPrintingId = FooB
    /\ cardSearch = <<"f">>

\* C10 as claimed: after a successful load the "Not enough history yet" line is
\* shown only if computeMovers7d finds, in the loaded data, neither a gainer nor a
\* loser.
C10_MessageOnlyWithoutMovers ==
    (pc = "ready" /\ moversPanel.message) =>
        (ComputeMovers7d(RenderLimit).gainers = <<>>
         /\ ComputeMovers7d(RenderLimit).losers = <<>>)

Occurrences(seq, x) == Cardinality({i \in 1..Len(seq) : seq[i] = x})
\* the ids held by the buckets, bucket after bucket
RECURSIVE IdsOf(_, _)
IdsOf(m, n) ==
    IF n = 0 THEN <<>>
    ELSE IdsOf(m, n - 1) \o [i \in 1..Len(m[n].val) |-> m[n].val[i].id]
HeldIds == IdsOf(printingsByBase, Len(printingsByBase))
\* the labels of a base name, in input order
LabelsOfBase(baseName) == SelectSeq(cards, LAMBDA l : ParseLabel(l).baseName = baseName)
BucketsAreOwn ==
    /\ \A i, j \in 1..Len(printingsByBase) :
          printingsByBase[i].key = printingsByBase[j].key => i = j
    /\ \A i \in 1..Len(printingsByBase) :
          LET b == printingsByBase[i]
          IN /\ \A k \in 1..Len(b.val) :
                   b.val[k] = ParseLabel(b.val[k].id) /\ b.val[k].baseName = b.key
             /\ [k \in 1..Len(b.val) |-> b.val[k].id] = LabelsOfBase(b.key)

\* C6 as claimed: every descriptor is in the one bucket of its baseName, the ids
\* of the buckets are the raw labels, none lost and no id held more than once,
\* and a bucket is in input order.
C6_IdsOnce ==
    pc = "ready" =>
        /\ BucketsAreOwn
        /\ Range(HeldIds) = Range(cards)
        /\ \A id \in Range(HeldIds) : Occurrences(HeldIds, id) = 1

\* C6 as amended: every descriptor is in the one bucket of its baseName, a bucket
\* is in input order, and the buckets hold each id as many times as the raw
\* labels hold it (once, when the labels are distinct): none lost, none added.
C6_IdsAsOftenAsLabels ==
    pc = "ready" =>
        /\ BucketsAreOwn
        /\ \A id \in Range(HeldIds) \cup Range(cards) :
              Occurrences(HeldIds, id) = Occurrences(cards, id)

\* two buckets, Foo's holding two printings with Bar's label between them
C6_Witness ==
    /\ pc = "ready"
    /\ cards = <<FooB, Bar, FooA>>
    /\ Len(printingsByBase) = 2
    /\ HeldIds = <<FooB, FooA, Bar>>

====
